---------------------------- MODULE Spec2Model ----------------------------
(***************************************************************************)
(* A model of the mood-tagger worker (src/mood-tagger/main.py): the tag    *)
(* deriver extract_mood_tags, the job processor process_image, the worker  *)
(* loop queue_worker and the application lifecycle around it               *)
(* (startup_event, shutdown_event, health_check).                          *)
(*                                                                         *)
(* Text is modelled as a sequence of one-character strings, so that        *)
(* str.lower() and the substring test `in` are computed, not assumed.      *)
(***************************************************************************)
EXTENDS Integers, Sequences, FiniteSets, TLC

VARIABLES
    \* ---- extract_mood_tags, called on its own -------------------------
    tpc,            \* "call" before the call, "return" after it
    caption,        \* the argument
    tags,           \* the local set `tags` when the function returns
    tag_list,       \* the returned list
    occurring,      \* history: the lexicon entries whose keyword occurs in caption
    \* ---- process_image, called on its own -----------------------------
    ppc,            \* "call" before the call, "return" after it
    job_data,       \* the argument
    captioner,      \* what the captioner does when it is reached
    outcome,        \* what the call did: a returned Result, or a raise
    \* ---- the application: module globals ------------------------------
    model,          \* global model: "None" or "SmolVLM"
    redis_client,   \* global redis_client: "None", "open" or "closed"
    worker_task,    \* global worker_task: "None" or "task"
    \* ---- the application: control ------------------------------------
    appPc,          \* "boot", "serving", "closing" (shutdown awaits the task), "closed"
    pc,             \* where the queue_worker coroutine is suspended
    cancelRequested,\* worker_task.cancel() was called and is not yet delivered
    sleepLeft,      \* time units left of asyncio.sleep(5)
    result,         \* queue_worker's local `result` while publish is awaited
    health,         \* the status of the last /health response, "unchecked" before
    \* ---- the queue collaborator --------------------------------------
    redisUp,        \* whether the queue server is reachable
    queue,          \* the list QUEUE_NAME: pushed at the head, popped at the tail
    published,      \* the messages delivered on RESULT_CHANNEL, oldest first
    \* ---- history ------------------------------------------------------
    startup,        \* how startup_event ended: "model failed", "queue failed", "started"
    last,           \* the last thing the worker did
    popped,         \* the payload of the last successful pop
    nPushed,        \* payloads pushed so far
    nPopped,        \* payloads popped so far
    nParsed,        \* ... of which json.loads accepted
    nProcessed,     \* calls of process_image so far
    nPublishCalls   \* calls of redis_client.publish so far

tagVars == <<tpc, caption, tags, tag_list, occurring>>
procVars == <<ppc, job_data, captioner, outcome>>
appVars == <<startup, model, redis_client, worker_task, appPc, pc, cancelRequested,
             sleepLeft, result, health, redisUp, queue, published,
             last, popped, nPushed, nPopped, nParsed, nProcessed, nPublishCalls>>
vars == <<tagVars, procVars, appVars>>

-----------------------------------------------------------------------------
(* Text helpers                                                            *)

UpperCase == <<"A","B","C","D","E","F","G","H","I","J","K","L","M",
               "N","O","P","Q","R","S","T","U","V","W","X","Y","Z">>
LowerCase == <<"a","b","c","d","e","f","g","h","i","j","k","l","m",
               "n","o","p","q","r","s","t","u","v","w","x","y","z">>

\* str.lower() on one character
lower_char(c) ==
    IF \E i \in 1..Len(UpperCase) : UpperCase[i] = c
    THEN LowerCase[CHOOSE i \in 1..Len(UpperCase) : UpperCase[i] = c]
    ELSE c

\* caption.lower()
lower(text) == [i \in 1..Len(text) |-> lower_char(text[i])]

\* A matcher that finds `word` only at the start of `text`
InAtStart(word, text) ==
    Len(word) <= Len(text) /\ SubSeq(text, 1, Len(word)) = word

\* Python's `word in text` on strings: substring containment
In(word, text) ==
    \E i \in 1..(Len(text) - Len(word) + 1) :
        SubSeq(text, i, i + Len(word) - 1) = word

\* any(word in text for word in words)
AnyIn(words, text) == \E w \in words : In(w, text)

\* seq[:n]
Take(seq, n) == SubSeq(seq, 1, IF Len(seq) < n THEN Len(seq) ELSE n)

Range(seq) == {seq[i] : i \in 1..Len(seq)}

\* list(s) for a set s: the elements once each, in the iteration order of
\* the hash table, which depends on the per-process string hash seed. Every
\* order is an outcome; ListOf is the set of them.
RECURSIVE ListOf(_)
ListOf(s) ==
    IF s = {} THEN {<<>>}
    ELSE UNION {{<<x>> \o l : l \in ListOf(s \ {x})} : x \in s}

-----------------------------------------------------------------------------
(* extract_mood_tags                                                       *)

\* The dict literal mood_mappings, in insertion order.
mood_mappings ==
   <<
      [keyword |-> <<"s","u","n","n","y">>, associated_moods |-> <<"bright", "cheerful", "warm">>],
      [keyword |-> <<"b","r","i","g","h","t">>, associated_moods |-> <<"happy", "vibrant", "energetic">>],
      [keyword |-> <<"d","a","r","k">>, associated_moods |-> <<"moody", "mysterious", "dramatic">>],
      [keyword |-> <<"c","o","l","o","r","f","u","l">>, associated_moods |-> <<"joyful", "lively", "playful">>],
      [keyword |-> <<"p","e","a","c","e","f","u","l">>, associated_moods |-> <<"calm", "serene", "tranquil">>],
      [keyword |-> <<"b","e","a","u","t","i","f","u","l">>, associated_moods |-> <<"elegant", "lovely", "aesthetic">>],
      [keyword |-> <<"g","r","e","e","n">>, associated_moods |-> <<"natural", "fresh", "organic">>],
      [keyword |-> <<"b","l","u","e">>, associated_moods |-> <<"cool", "calm", "peaceful">>],
      [keyword |-> <<"r","e","d">>, associated_moods |-> <<"passionate", "bold", "energetic">>],
      [keyword |-> <<"y","e","l","l","o","w">>, associated_moods |-> <<"cheerful", "sunny", "bright">>],
      [keyword |-> <<"o","r","a","n","g","e">>, associated_moods |-> <<"warm", "vibrant", "enthusiastic">>],
      [keyword |-> <<"p","u","r","p","l","e">>, associated_moods |-> <<"mystical", "luxurious", "dreamy">>],
      [keyword |-> <<"b","l","a","c","k">>, associated_moods |-> <<"moody", "minimalist", "bold">>],
      [keyword |-> <<"w","h","i","t","e">>, associated_moods |-> <<"clean", "peaceful", "pure">>],
      [keyword |-> <<"w","a","t","e","r">>, associated_moods |-> <<"refreshing", "fluid", "clean">>],
      [keyword |-> <<"f","l","o","w","e","r">>, associated_moods |-> <<"delicate", "beautiful", "natural">>],
      [keyword |-> <<"s","u","n","s","e","t">>, associated_moods |-> <<"romantic", "warm", "golden">>],
      [keyword |-> <<"s","u","n","r","i","s","e">>, associated_moods |-> <<"hopeful", "gentle", "fresh">>],
      [keyword |-> <<"r","a","i","n">>, associated_moods |-> <<"melancholic", "calm", "moody">>],
      [keyword |-> <<"s","n","o","w">>, associated_moods |-> <<"quiet", "cold", "magical">>],
      [keyword |-> <<"s","t","o","r","m">>, associated_moods |-> <<"chaotic", "powerful", "intense">>],
      [keyword |-> <<"c","i","t","y">>, associated_moods |-> <<"urban", "dynamic", "modern">>],
      [keyword |-> <<"m","o","u","n","t","a","i","n">>, associated_moods |-> <<"majestic", "strong", "elevated">>],
      [keyword |-> <<"b","e","a","c","h">>, associated_moods |-> <<"relaxing", "tropical", "carefree">>],
      [keyword |-> <<"f","o","r","e","s","t">>, associated_moods |-> <<"natural", "mysterious", "earthy">>],
      [keyword |-> <<"d","e","s","e","r","t">>, associated_moods |-> <<"vast", "dry", "isolated">>],
      [keyword |-> <<"s","k","y">>, associated_moods |-> <<"open", "free", "airy">>],
      [keyword |-> <<"s","m","i","l","e">>, associated_moods |-> <<"happy", "joyful", "positive">>],
      [keyword |-> <<"l","a","u","g","h">>, associated_moods |-> <<"cheerful", "carefree", "uplifting">>],
      [keyword |-> <<"c","r","y">>, associated_moods |-> <<"emotional", "sad", "touching">>],
      [keyword |-> <<"c","h","i","l","d">>, associated_moods |-> <<"innocent", "joyful", "pure">>],
      [keyword |-> <<"b","a","b","y">>, associated_moods |-> <<"cute", "gentle", "tender">>],
      [keyword |-> <<"d","o","g">>, associated_moods |-> <<"friendly", "loyal", "playful">>],
      [keyword |-> <<"c","a","t">>, associated_moods |-> <<"elegant", "mysterious", "independent">>],
      [keyword |-> <<"b","i","r","d">>, associated_moods |-> <<"free", "graceful", "light">>],
      [keyword |-> <<"f","o","o","d">>, associated_moods |-> <<"appetizing", "delicious", "satisfying">>],
      [keyword |-> <<"d","r","i","n","k">>, associated_moods |-> <<"refreshing", "inviting", "cool">>],
      [keyword |-> <<"o","l","d">>, associated_moods |-> <<"vintage", "nostalgic", "classic">>],
      [keyword |-> <<"n","e","w">>, associated_moods |-> <<"modern", "fresh", "contemporary">>],
      [keyword |-> <<"v","i","n","t","a","g","e">>, associated_moods |-> <<"nostalgic", "retro", "classic">>],
      [keyword |-> <<"a","b","s","t","r","a","c","t">>, associated_moods |-> <<"artistic", "imaginative", "creative">>],
      [keyword |-> <<"m","i","n","i","m","a","l">>, associated_moods |-> <<"clean", "simple", "focused">>],
      [keyword |-> <<"c","r","o","w","d">>, associated_moods |-> <<"busy", "chaotic", "lively">>],
      [keyword |-> <<"a","l","o","n","e">>, associated_moods |-> <<"solitary", "quiet", "introspective">>],
      [keyword |-> <<"d","a","n","c","e">>, associated_moods |-> <<"energetic", "expressive", "joyful">>],
      [keyword |-> <<"m","u","s","i","c">>, associated_moods |-> <<"rhythmic", "soulful", "emotional">>],
      [keyword |-> <<"l","i","g","h","t">>, associated_moods |-> <<"hopeful", "bright", "glowing">>],
      [keyword |-> <<"s","h","a","d","o","w">>, associated_moods |-> <<"dark", "mysterious", "introspective">>],
      [keyword |-> <<"f","i","r","e">>, associated_moods |-> <<"intense", "hot", "powerful">>],
      [keyword |-> <<"n","i","g","h","t">>, associated_moods |-> <<"quiet", "romantic", "mysterious">>]
   >>

\* The slice bound of associated_moods[:2] and of list(tags)[:6]
MoodsPerKeyword == 2
MaxTags == 6

\* associated_moods[:2]
FirstMoods(associated_moods) == Take(associated_moods, MoodsPerKeyword)

\* The words of the two fallback tests
PositiveWords == { <<"b","e","a","u","t","i","f","u","l">>, <<"n","i","c","e">>,
                   <<"g","o","o","d">>, <<"l","o","v","e","l","y">> }
PostureWords  == { <<"s","i","t","t","i","n","g">>,
                   <<"s","t","a","n","d","i","n","g">>, <<"l","y","i","n","g">> }

\* A loop that matches only a keyword the caption begins with
KeywordTagsAtStart(caption_lower) ==
    UNION { Range(FirstMoods(mood_mappings[i].associated_moods)) :
              i \in {j \in 1..Len(mood_mappings) :
                        InAtStart(mood_mappings[j].keyword, caption_lower)} }

\* The set `tags` after the loop over mood_mappings.items()
KeywordTags(caption_lower) ==
    UNION { Range(FirstMoods(mood_mappings[i].associated_moods)) :
              i \in {j \in 1..Len(mood_mappings) :
                        In(mood_mappings[j].keyword, caption_lower)} }

\* A fallback that tests the posture words first
FallbackPostureFirst(caption_lower) ==
    IF AnyIn(PostureWords, caption_lower) THEN {"calm", "relaxed"}
    ELSE IF AnyIn(PositiveWords, caption_lower) THEN {"pleasant", "positive"}
    ELSE {"neutral", "balanced"}

\* The three-way fallback, taken when `tags` is empty
FallbackTags(caption_lower) ==
    IF AnyIn(PositiveWords, caption_lower) THEN {"pleasant", "positive"}
    ELSE IF AnyIn(PostureWords, caption_lower) THEN {"calm", "relaxed"}
    ELSE {"neutral", "balanced"}

\* A body without `if not tags`: the fallback is always added
TagSetFallbackAlways(text) ==
    LET caption_lower == lower(text)
    IN  KeywordTags(caption_lower) \cup FallbackTags(caption_lower)

\* The set `tags` at the return statement
TagSet(text) ==
    LET caption_lower == lower(text)
        collected == KeywordTags(caption_lower)
    IN  IF collected = {} THEN FallbackTags(caption_lower) ELSE collected

\* A return statement without the slice
TruncateNothing(tag_seq) == tag_seq

\* list(tags)[:6]
Truncate(tag_seq) == Take(tag_seq, MaxTags)

\* The lists extract_mood_tags(caption) can return
extract_mood_tags(text) == { Truncate(l) : l \in ListOf(TagSet(text)) }

-----------------------------------------------------------------------------
(* process_image                                                           *)

WORKER_ID == "mood-worker-1"

\* A JSON value as json.loads returns it: an object (a dict, here a function
\* from its keys to their values) or something else (a list, a number, ...).
Dict(items) == [type |-> "dict", items |-> items]
NotADict == [type |-> "list", items |-> <<>>]

\* job_data[key]: TypeError on a non-dict, KeyError on a missing key
Subscript(jd, key) ==
    IF jd.type # "dict"
        THEN [raised |-> TRUE, message |-> "list indices must be integers or slices, not str"]
    ELSE IF key \notin DOMAIN jd.items
        THEN [raised |-> TRUE, message |-> "'" \o key \o "'"]
    ELSE [raised |-> FALSE, value |-> jd.items[key]]

\* The imageData strings of the model: what base64.b64decode and Image.open
\* make of each.  "not-valid-base64!" is rejected by b64decode (binascii.Error);
\* "bm90IGFuIGltYWdl" decodes to the bytes of "not an image", which Image.open
\* rejects (UnidentifiedImageError); "iVBORw0KGgo=" stands for a whole PNG.
ImageDataValues == {"not-valid-base64!", "bm90IGFuIGltYWdl", "iVBORw0KGgo="}

b64decode(image_data) ==
    IF image_data = "not-valid-base64!"
    THEN [raised |-> TRUE, message |-> "Incorrect padding"]
    ELSE [raised |-> FALSE, value |-> image_data]

Image_open(image_bytes) ==
    IF image_bytes = "iVBORw0KGgo="
    THEN [raised |-> FALSE, value |-> "image"]
    ELSE [raised |-> TRUE, message |-> "cannot identify image file"]

\* What the captioner (processor, model.generate, processor.decode) does for
\* an image: it raises, or it returns a caption.
GeneratedCaptions == { <<>>, <<"D","a","r","k">> }

CaptionerOutcomes ==
    { [raised |-> TRUE, message |-> "CUDA out of memory", caption |-> <<>>] }
    \cup { [raised |-> FALSE, message |-> "", caption |-> c] : c \in GeneratedCaptions }

\* A success dict whose caption is normalised to lower case
SuccessResultLowered(request_id, tag_seq, text) ==
    [requestId |-> request_id, success |-> TRUE,
     data |-> [tags |-> tag_seq, caption |-> lower(text)], worker |-> WORKER_ID]

\* The dict built on the success path.  processedAt, the wall-clock time of
\* the call, is left out.
SuccessResult(request_id, tag_seq, text) ==
    [requestId |-> request_id, success |-> TRUE,
     data |-> [tags |-> tag_seq, caption |-> text], worker |-> WORKER_ID]

\* An except clause that does not look the requestId up
RequestIdAlwaysUnknown(jd) == "unknown"

\* job_data.get('requestId', 'unknown') in the except clause
RequestIdOrUnknown(jd) ==
    IF "requestId" \in DOMAIN jd.items THEN jd.items["requestId"] ELSE "unknown"

\* An except clause that reads job_data['requestId'] instead of using get
FailureSubscripting(jd, message) ==
    LET request_id == Subscript(jd, "requestId") IN
    IF request_id.raised
    THEN [raised |-> TRUE, message |-> request_id.message]
    ELSE [raised |-> FALSE,
          value |-> [requestId |-> request_id.value, success |-> FALSE,
                     error |-> message, worker |-> WORKER_ID]]

\* The except clause: the failure dict, or AttributeError when job_data has
\* no method get.
Failure(jd, message) ==
    IF jd.type # "dict"
    THEN [raised |-> TRUE, message |-> "'list' object has no attribute 'get'"]
    ELSE [raised |-> FALSE,
          value |-> [requestId |-> RequestIdOrUnknown(jd), success |-> FALSE,
                     error |-> message, worker |-> WORKER_ID]]

\* `if not tags: tags = ['artistic', 'visual', 'expressive']`
OrDefault(tag_seq) ==
    IF tag_seq = <<>> THEN <<"artistic", "visual", "expressive">> ELSE tag_seq

\* process_image(job_data): the set of ways the call can end, each either
\* [raised |-> FALSE, value |-> the returned Result] or [raised |-> TRUE, ...],
\* given what the captioner does (gen).  The set has several members only
\* through the order of list(tags).
process_image(jd, gen) ==
    LET request_id == Subscript(jd, "requestId")
        file_name  == Subscript(jd, "fileName")
        image_data == Subscript(jd, "imageData")
    IN
    IF request_id.raised THEN {Failure(jd, request_id.message)}
    ELSE IF file_name.raised THEN {Failure(jd, file_name.message)}
    ELSE IF image_data.raised THEN {Failure(jd, image_data.message)}
    ELSE
      LET image_bytes == b64decode(image_data.value) IN
      IF image_bytes.raised THEN {Failure(jd, image_bytes.message)}
      ELSE
        LET pil_image == Image_open(image_bytes.value) IN
        IF pil_image.raised THEN {Failure(jd, pil_image.message)}
        ELSE IF gen.raised THEN {Failure(jd, gen.message)}
        ELSE { [raised |-> FALSE,
                value |-> SuccessResult(request_id.value, OrDefault(tl), gen.caption)] :
                  tl \in extract_mood_tags(gen.caption) }

-----------------------------------------------------------------------------
(* queue_worker                                                            *)

\* asyncio.sleep(5)
BACKOFF == 5

\* A payload on the queue is text: either text json.loads rejects, or the
\* text of a JSON value.
Garbage == [kind |-> "garbage", value |-> NotADict]
JsonText(v) == [kind |-> "json", value |-> v]

\* json.loads(job_data)
json_loads(payload) ==
    IF payload.kind = "json"
    THEN [raised |-> FALSE, value |-> payload.value]
    ELSE [raised |-> TRUE, message |-> "Expecting value: line 1 column 1 (char 0)"]

NoResult == [requestId |-> "none"]

\* An iteration without the inner `except json.JSONDecodeError`: the decode
\* error reaches the outer handler and its sleep
IterationDecodeErrorEscapes(payload, done) ==
    LET job == json_loads(payload) IN
    IF job.raised
    THEN [event |-> "invalid_json", parsed |-> FALSE, processed |-> FALSE,
          result |-> NoResult, next |-> "sleep"]
    ELSE IF Subscript(job.value, "requestId").raised
    THEN [event |-> "job_error", parsed |-> TRUE, processed |-> FALSE,
          result |-> NoResult, next |-> "brpop"]
    ELSE IF done.raised
    THEN [event |-> "job_error", parsed |-> TRUE, processed |-> TRUE,
          result |-> NoResult, next |-> "brpop"]
    ELSE [event |-> "publishing", parsed |-> TRUE, processed |-> TRUE,
          result |-> done.value, next |-> "publish"]

\* An iteration that starts publish without awaiting it
IterationPublishDetached(payload, done) ==
    LET job == json_loads(payload) IN
    IF job.raised
    THEN [event |-> "invalid_json", parsed |-> FALSE, processed |-> FALSE,
          result |-> NoResult, next |-> "brpop"]
    ELSE IF Subscript(job.value, "requestId").raised
    THEN [event |-> "job_error", parsed |-> TRUE, processed |-> FALSE,
          result |-> NoResult, next |-> "brpop"]
    ELSE IF done.raised
    THEN [event |-> "job_error", parsed |-> TRUE, processed |-> TRUE,
          result |-> NoResult, next |-> "brpop"]
    ELSE [event |-> "publishing", parsed |-> TRUE, processed |-> TRUE,
          result |-> done.value, next |-> "brpop"]

\* An iteration without the log line 222 that reads job['requestId']
IterationWithoutLogLine(payload, done) ==
    LET job == json_loads(payload) IN
    IF job.raised
    THEN [event |-> "invalid_json", parsed |-> FALSE, processed |-> FALSE,
          result |-> NoResult, next |-> "brpop"]
    ELSE IF done.raised
    THEN [event |-> "job_error", parsed |-> TRUE, processed |-> TRUE,
          result |-> NoResult, next |-> "brpop"]
    ELSE [event |-> "publishing", parsed |-> TRUE, processed |-> TRUE,
          result |-> done.value, next |-> "publish"]

\* The body of the inner try of one iteration, from json.loads up to the call
\* of redis_client.publish, for a popped payload; `done` is how process_image
\* ends if it is called (a member of process_image(job, gen)).
\*   event  "invalid_json": json.JSONDecodeError is caught (line 231)
\*          "job_error":    another exception is caught (line 233)
\*          "publishing":   publish was called and is awaited
\*   next   the await the coroutine is suspended in afterwards
Iteration(payload, done) ==
    LET job == json_loads(payload) IN
    IF job.raised
    THEN [event |-> "invalid_json", parsed |-> FALSE, processed |-> FALSE,
          result |-> NoResult, next |-> "brpop"]
    ELSE IF Subscript(job.value, "requestId").raised      \* the log line 222
    THEN [event |-> "job_error", parsed |-> TRUE, processed |-> FALSE,
          result |-> NoResult, next |-> "brpop"]
    ELSE IF done.raised
    THEN [event |-> "job_error", parsed |-> TRUE, processed |-> TRUE,
          result |-> NoResult, next |-> "brpop"]
    ELSE [event |-> "publishing", parsed |-> TRUE, processed |-> TRUE,
          result |-> done.value, next |-> "publish"]

\* The ways process_image can end for a payload, over what the captioner
\* does; for a payload json.loads rejects the call is never reached.
Endings(payload) ==
    UNION { process_image(payload.value, gen) : gen \in CaptionerOutcomes }

\* An outer handler that retries at once
WorkerErrorNoBackoff == [pc |-> "brpop", sleepLeft |-> 0]

\* `except Exception` of the outer try (line 239): log, then asyncio.sleep(5)
WorkerError == [pc |-> "sleep", sleepLeft |-> BACKOFF]

\* An inner handler that leaves the loop
PublishRaisedExits == [pc |-> "returned", sleepLeft |-> 0]

\* `except Exception` of the inner try (line 233), reached from a raise of
\* redis_client.publish: log, and the next iteration
PublishRaised == [pc |-> "brpop", sleepLeft |-> 0]

\* A CancelledError that the inner `except Exception` catches, as it would
\* were it an Exception: after a cancelled publish the loop goes on
CancelledSwallowedInPublish(at) ==
    IF at = "brpop" THEN "returned"
    ELSE IF at = "publish" THEN "brpop"
    ELSE "cancelled"

\* Where asyncio.CancelledError, thrown into the coroutine at the await it is
\* suspended in, ends up.  In brpop and in publish it is raised inside the
\* outer try: it is not an Exception, so the inner handlers let it pass, and
\* `except asyncio.CancelledError` breaks out of the loop: the coroutine
\* returns.  In asyncio.sleep(5) it is raised inside the `except Exception`
\* handler, which no clause of that try covers: it leaves the coroutine.  A
\* task cancelled before its first step never runs the body.
Cancelled(at) ==
    IF at \in {"brpop", "publish"} THEN "returned" ELSE "cancelled"

Suspended == {"brpop", "publish", "sleep"}
Ended == {"returned", "cancelled"}

\* The first step of the task: up to the first brpop
WorkerStart ==
    /\ pc = "created"
    /\ ~cancelRequested
    /\ pc' = "brpop"
    /\ last' = "start"
    /\ UNCHANGED <<startup, model, redis_client, worker_task, appPc, cancelRequested,
                   sleepLeft, result, health, redisUp, queue, published,
                   popped, nPushed, nPopped, nParsed, nProcessed, nPublishCalls>>

\* A timeout handled as an error: the backoff sleep
BrpopTimeoutBacksOff ==
    /\ pc = "brpop"
    /\ ~cancelRequested
    /\ redisUp
    /\ queue = <<>>
    /\ last' = "timeout"
    /\ pc' = "sleep"
    /\ sleepLeft' = BACKOFF
    /\ UNCHANGED <<startup, model, redis_client, worker_task, appPc, cancelRequested,
                   result, health, redisUp, queue, published,
                   popped, nPushed, nPopped, nParsed, nProcessed, nPublishCalls>>

\* brpop returns None after its timeout: `if result` fails, next iteration
BrpopTimeout ==
    /\ pc = "brpop"
    /\ ~cancelRequested
    /\ redisUp
    /\ queue = <<>>
    /\ last' = "timeout"
    /\ UNCHANGED <<startup, model, redis_client, worker_task, appPc, pc, cancelRequested,
                   sleepLeft, result, health, redisUp, queue, published,
                   popped, nPushed, nPopped, nParsed, nProcessed, nPublishCalls>>

\* brpop returns a payload: the iteration runs, without suspending, up to the
\* await of publish or to the next brpop
BrpopJob ==
    /\ pc = "brpop"
    /\ ~cancelRequested
    /\ redisUp
    /\ queue # <<>>
    /\ LET payload == queue[Len(queue)] IN
       \E done \in Endings(payload) :
         LET it == Iteration(payload, done) IN
           /\ queue' = SubSeq(queue, 1, Len(queue) - 1)
           /\ popped' = payload
           /\ nPopped' = nPopped + 1
           /\ nParsed' = nParsed + (IF it.parsed THEN 1 ELSE 0)
           /\ nProcessed' = nProcessed + (IF it.processed THEN 1 ELSE 0)
           /\ nPublishCalls' = nPublishCalls + (IF it.next = "publish" THEN 1 ELSE 0)
           /\ result' = it.result
           /\ last' = it.event
           /\ pc' = it.next
    /\ UNCHANGED <<startup, model, redis_client, worker_task, appPc, cancelRequested,
                   sleepLeft, health, redisUp, published, nPushed>>

\* brpop raises (the server is unreachable): the outer handler
BrpopRaises ==
    /\ pc = "brpop"
    /\ ~cancelRequested
    /\ ~redisUp
    /\ pc' = WorkerError.pc
    /\ sleepLeft' = WorkerError.sleepLeft
    /\ last' = "pop_error"
    /\ UNCHANGED <<startup, model, redis_client, worker_task, appPc, cancelRequested,
                   result, health, redisUp, queue, published,
                   popped, nPushed, nPopped, nParsed, nProcessed, nPublishCalls>>

\* publish returns: the message is on the channel; log, next iteration
PublishReturns ==
    /\ pc = "publish"
    /\ ~cancelRequested
    /\ redisUp
    /\ published' = Append(published, result)
    /\ result' = NoResult
    /\ pc' = "brpop"
    /\ last' = "published"
    /\ UNCHANGED <<startup, model, redis_client, worker_task, appPc, cancelRequested,
                   sleepLeft, health, redisUp, queue,
                   popped, nPushed, nPopped, nParsed, nProcessed, nPublishCalls>>

\* publish raises (the server is unreachable): nothing is delivered
PublishRaises ==
    /\ pc = "publish"
    /\ ~cancelRequested
    /\ ~redisUp
    /\ pc' = PublishRaised.pc
    /\ sleepLeft' = PublishRaised.sleepLeft
    /\ result' = NoResult
    /\ last' = "publish_error"
    /\ UNCHANGED <<startup, model, redis_client, worker_task, appPc, cancelRequested,
                   health, redisUp, queue, published,
                   popped, nPushed, nPopped, nParsed, nProcessed, nPublishCalls>>

\* One time unit of asyncio.sleep(5) passes
Tick ==
    /\ pc = "sleep"
    /\ sleepLeft > 0
    /\ sleepLeft' = sleepLeft - 1
    /\ UNCHANGED <<startup, model, redis_client, worker_task, appPc, pc, cancelRequested,
                   result, health, redisUp, queue, published, last,
                   popped, nPushed, nPopped, nParsed, nProcessed, nPublishCalls>>

\* asyncio.sleep(5) returns: next iteration
SleepReturns ==
    /\ pc = "sleep"
    /\ ~cancelRequested
    /\ sleepLeft = 0
    /\ pc' = "brpop"
    /\ last' = "woke"
    /\ UNCHANGED <<startup, model, redis_client, worker_task, appPc, cancelRequested,
                   sleepLeft, result, health, redisUp, queue, published,
                   popped, nPushed, nPopped, nParsed, nProcessed, nPublishCalls>>

\* The requested cancellation is delivered at the await the task is
\* suspended in (or before its first step).  A publish that is cancelled
\* may or may not have sent its message already.
CancelDelivered ==
    /\ cancelRequested
    /\ pc \in Suspended \cup {"created"}
    /\ pc' = Cancelled(pc)
    /\ cancelRequested' = FALSE
    /\ \/ published' = published
       \/ pc = "publish" /\ redisUp /\ published' = Append(published, result)
    /\ result' = NoResult
    /\ sleepLeft' = 0
    /\ last' = "cancelled in " \o pc
    /\ UNCHANGED <<startup, model, redis_client, worker_task, appPc,
                   health, redisUp, queue,
                   popped, nPushed, nPopped, nParsed, nProcessed, nPublishCalls>>

-----------------------------------------------------------------------------
(* startup_event, shutdown_event, health_check                             *)

\* startup_event: load_model(), then redis.from_url and ping, then
\* asyncio.create_task(queue_worker()); each failure returns early.
\* loaded: load_model() returned True; urlOk: redis.from_url did not raise.
Startup ==
    /\ appPc = "boot"
    /\ \E loaded \in BOOLEAN, urlOk \in BOOLEAN :
         LET connected == loaded /\ urlOk
             started == connected /\ redisUp        \* ping() did not raise
         IN  /\ startup' = IF ~loaded THEN "model failed"
                            ELSE IF ~started THEN "queue failed" ELSE "started"
             /\ model' = IF loaded THEN "SmolVLM" ELSE "None"
             /\ redis_client' = IF connected THEN "open" ELSE "None"
             /\ worker_task' = IF started THEN "task" ELSE "None"
             /\ pc' = IF started THEN "created" ELSE "none"
    /\ appPc' = "serving"
    /\ UNCHANGED <<cancelRequested, sleepLeft, result, health, redisUp, queue,
                   published, last, popped, nPushed, nPopped, nParsed,
                   nProcessed, nPublishCalls>>

\* GET /health
health_status ==
    LET redis_status ==
            IF redis_client # "None"
            THEN (IF redisUp THEN "connected" ELSE "error")
            ELSE "disconnected"
    IN  IF model # "None" /\ redis_status = "connected"
        THEN "healthy" ELSE "unhealthy"

HealthCheck ==
    /\ appPc = "serving"
    /\ health' = health_status
    /\ UNCHANGED <<startup, model, redis_client, worker_task, appPc, pc, cancelRequested,
                   sleepLeft, result, redisUp, queue, published, last,
                   popped, nPushed, nPopped, nParsed, nProcessed, nPublishCalls>>

\* shutdown_event, up to `await worker_task`; without a task, to its end
Shutdown ==
    /\ appPc = "serving"
    /\ IF worker_task # "None"
       THEN /\ cancelRequested' = TRUE
            /\ appPc' = "closing"
            /\ UNCHANGED redis_client
       ELSE /\ appPc' = "closed"
            /\ redis_client' = IF redis_client = "open" THEN "closed" ELSE redis_client
            /\ UNCHANGED cancelRequested
    /\ UNCHANGED <<startup, model, worker_task, pc, sleepLeft, result, health, redisUp,
                   queue, published, last, popped, nPushed, nPopped, nParsed,
                   nProcessed, nPublishCalls>>

\* shutdown_event from the end of `await worker_task` (a CancelledError it
\* raises is passed over): close the client
ShutdownJoin ==
    /\ appPc = "closing"
    /\ pc \in Ended
    /\ redis_client' = "closed"
    /\ appPc' = "closed"
    /\ UNCHANGED <<startup, model, worker_task, pc, cancelRequested, sleepLeft, result,
                   health, redisUp, queue, published, last, popped, nPushed,
                   nPopped, nParsed, nProcessed, nPublishCalls>>

-----------------------------------------------------------------------------
(* The queue server and the producers                                      *)

MaxPushed == 2

Jobs ==
    { Dict(items) : items \in
        UNION { [keys -> {"r1", "r2", "a.png"} \cup ImageDataValues] :
                  keys \in SUBSET {"requestId", "fileName", "imageData"} } }

\* A job as §3 of the data model has it: each field, when present, holds a
\* value of its kind
WellTyped(jd) ==
    /\ "requestId" \in DOMAIN jd.items => jd.items["requestId"] \in {"r1", "r2"}
    /\ "fileName" \in DOMAIN jd.items => jd.items["fileName"] = "a.png"
    /\ "imageData" \in DOMAIN jd.items => jd.items["imageData"] \in ImageDataValues

JobInputs == {jd \in Jobs : WellTyped(jd)}

Job(request_id, image_data) ==
    Dict([k \in {"requestId", "fileName", "imageData"} |->
            CASE k = "requestId" -> request_id
              [] k = "fileName" -> "a.png"
              [] OTHER -> image_data])

Payloads ==
    { Garbage,
      JsonText(NotADict),
      JsonText(Dict([k \in {"fileName", "imageData"} |->
                        IF k = "fileName" THEN "a.png" ELSE "iVBORw0KGgo="])),
      JsonText(Job("r1", "iVBORw0KGgo=")),
      JsonText(Job("r2", "not-valid-base64!")) }

NoPayload == [kind |-> "none", value |-> NotADict]

\* A producer pushes a payload
Push ==
    /\ nPushed < MaxPushed
    /\ \E payload \in Payloads : queue' = <<payload>> \o queue
    /\ nPushed' = nPushed + 1
    /\ UNCHANGED <<startup, model, redis_client, worker_task, appPc, pc, cancelRequested,
                   sleepLeft, result, health, redisUp, published, last,
                   popped, nPopped, nParsed, nProcessed, nPublishCalls>>

\* The server becomes unreachable, or reachable again
RedisFlips ==
    /\ redisUp' = ~redisUp
    /\ UNCHANGED <<startup, model, redis_client, worker_task, appPc, pc, cancelRequested,
                   sleepLeft, result, health, queue, published, last,
                   popped, nPushed, nPopped, nParsed, nProcessed, nPublishCalls>>

-----------------------------------------------------------------------------
(* The specifications                                                      *)

TagIdle ==
    tpc = "idle" /\ caption = <<>> /\ tags = {} /\ tag_list = <<>> /\ occurring = {}

ProcIdle ==
    /\ ppc = "idle"
    /\ job_data = NotADict
    /\ captioner = [raised |-> FALSE, message |-> "", caption |-> <<>>]
    /\ outcome = [raised |-> FALSE, value |-> NoResult]

AppInit ==
    /\ startup = "pending"
    /\ model = "None"
    /\ redis_client = "None"
    /\ worker_task = "None"
    /\ appPc = "boot"
    /\ pc = "none"
    /\ cancelRequested = FALSE
    /\ sleepLeft = 0
    /\ result = NoResult
    /\ health = "unchecked"
    /\ redisUp \in BOOLEAN
    /\ queue = <<>>
    /\ published = <<>>
    /\ last = "none"
    /\ popped = NoPayload
    /\ nPushed = 0
    /\ nPopped = 0
    /\ nParsed = 0
    /\ nProcessed = 0
    /\ nPublishCalls = 0

AppIdle == AppInit /\ redisUp

\* The application: startup, the worker task, the queue, health checks, shutdown
Init == AppInit /\ TagIdle /\ ProcIdle

Next ==
    \/ Startup /\ UNCHANGED <<tagVars, procVars>>
    \/ HealthCheck /\ UNCHANGED <<tagVars, procVars>>
    \/ Shutdown /\ UNCHANGED <<tagVars, procVars>>
    \/ ShutdownJoin /\ UNCHANGED <<tagVars, procVars>>
    \/ WorkerStart /\ UNCHANGED <<tagVars, procVars>>
    \/ BrpopTimeout /\ UNCHANGED <<tagVars, procVars>>
    \/ BrpopJob /\ UNCHANGED <<tagVars, procVars>>
    \/ BrpopRaises /\ UNCHANGED <<tagVars, procVars>>
    \/ PublishReturns /\ UNCHANGED <<tagVars, procVars>>
    \/ PublishRaises /\ UNCHANGED <<tagVars, procVars>>
    \/ Tick /\ UNCHANGED <<tagVars, procVars>>
    \/ SleepReturns /\ UNCHANGED <<tagVars, procVars>>
    \/ CancelDelivered /\ UNCHANGED <<tagVars, procVars>>
    \/ Push /\ UNCHANGED <<tagVars, procVars>>
    \/ RedisFlips /\ UNCHANGED <<tagVars, procVars>>

Spec == Init /\ [][Next]_vars

\* The event loop runs a task whose cancellation was requested: the
\* CancelledError is thrown into it at its next step
SpecFair == Spec /\ WF_vars(CancelDelivered /\ UNCHANGED <<tagVars, procVars>>)

\* process_image called on its own, on every job input and over everything
\* the captioner can do
ProcInit ==
    /\ ppc = "call"
    /\ job_data \in JobInputs
    /\ captioner \in CaptionerOutcomes
    /\ outcome = [raised |-> FALSE, value |-> NoResult]

ProcessImage ==
    /\ ppc = "call"
    /\ outcome' \in process_image(job_data, captioner)
    /\ ppc' = "return"
    /\ UNCHANGED <<job_data, captioner>>

InitProc == ProcInit /\ TagIdle /\ AppIdle

NextProc == ProcessImage /\ UNCHANGED <<tagVars, appVars>>

SpecProc == InitProc /\ [][NextProc]_vars

-----------------------------------------------------------------------------
(* Captions the tag deriver is called on: the fragments below, any         *)
(* selection of at most MaxFrags of them, joined in the order given.       *)

MaxFrags == 4

Fragments ==
    << <<"S","u","n","n","y"," ">>,
       <<"f","o","r","e","s","t"," ">>,
       <<"b","l","a","c","k"," ">>,
       <<"d","a","r","k"," ">>,
       <<"c","o","v","e","r","e","d"," ">>,
       <<"n","i","c","e"," ">>,
       <<"s","i","t","t","i","n","g">> >>

RECURSIVE Join(_, _)
Join(sel, i) ==
    IF i > Len(Fragments) THEN <<>>
    ELSE (IF i \in sel THEN Fragments[i] ELSE <<>>) \o Join(sel, i + 1)

\* "A sunny beach with bright colors"
SunnyBeach ==
    <<"A"," ","s","u","n","n","y"," ","b","e","a","c","h"," ","w","i","t",
      "h"," ","b","r","i","g","h","t"," ","c","o","l","o","r","s">>

\* "A person sitting quietly"
PersonSitting ==
    <<"A"," ","p","e","r","s","o","n"," ","s","i","t","t","i","n","g"," ",
      "q","u","i","e","t","l","y">>

\* "A lovely STANDING ovation": a positive word and a posture word
LovelyStanding ==
    <<"A"," ","l","o","v","e","l","y"," ","S","T","A","N","D","I","N","G",
      " ","o","v","a","t","i","o","n">>

Captions ==
    { Join(sel, 1) : sel \in {s \in SUBSET (1..Len(Fragments)) :
                                  Cardinality(s) <= MaxFrags} }
    \cup {SunnyBeach, PersonSitting, LovelyStanding}

\* `word` occurs in `text` at some position, character by character
Occurs(word, text) ==
    \E i \in 1..(Len(text) - Len(word) + 1) :
        \A j \in 1..Len(word) : text[i + j - 1] = word[j]

\* The lexicon entries whose keyword occurs in the lower-cased caption
Matched(text) ==
    LET low == lower(text)
    IN  {i \in 1..Len(mood_mappings) : Occurs(mood_mappings[i].keyword, low)}

TagInit ==
    /\ tpc = "call"
    /\ caption \in Captions
    /\ tags = {}
    /\ tag_list = <<>>
    /\ occurring = Matched(caption)

ExtractMoodTags ==
    /\ tpc = "call"
    /\ tags' = TagSet(caption)
    /\ tag_list' \in extract_mood_tags(caption)
    /\ tpc' = "return"
    /\ UNCHANGED <<caption, occurring>>

\* extract_mood_tags called on its own, on every caption of Captions
InitTags == TagInit /\ ProcIdle /\ AppIdle

NextTags == ExtractMoodTags /\ UNCHANGED <<procVars, appVars>>

SpecTags == InitTags /\ [][NextTags]_vars

-----------------------------------------------------------------------------
(* Properties of queue_worker and of the application                       *)

\* C1 as stated: every popped payload that json.loads accepts is handed to
\* process_image and has publish called for it exactly once, payloads with
\* missing fields included.  The iteration runs without suspending from the
\* pop to the call of publish, so the counts agree in every state.
C1_Original ==
    /\ nProcessed = nParsed
    /\ nPublishCalls = nParsed

\* C2: when a popped payload fails to parse, that iteration calls neither
\* process_image nor publish, delivers nothing, and leaves the worker at
\* the next blocking pop: not stopped, not in the backoff sleep.
C2_MalformedDropped ==
    [][ (pc = "brpop" /\ nPopped' = nPopped + 1 /\ popped'.kind = "garbage")
            => /\ nProcessed' = nProcessed
               /\ nPublishCalls' = nPublishCalls
               /\ published' = published
               /\ pc' = "brpop"
               /\ sleepLeft' = 0 ]_vars

\* C2 witness: an unparseable payload was popped and the worker is back at
\* the blocking pop.
C2_Witness ==
    /\ pc = "brpop"
    /\ popped.kind = "garbage"
    /\ last = "invalid_json"
    /\ nPopped > 0

\* C4 as stated: when cancellation is requested while a dispatched job's
\* Result is not yet published, the Result is published before the worker
\* stops.
C4_Original ==
    [][ (pc = "publish" /\ cancelRequested /\ pc' \in Ended)
            => published' = Append(published, result) ]_vars

\* C5 as stated: wherever the worker is suspended when the cancellation is
\* delivered (the blocking pop, the publish, the backoff sleep), it leaves
\* the loop and returns normally; no exception leaves queue_worker.
C5_Original ==
    [][ (cancelRequested /\ pc \in Suspended /\ pc' # pc) => pc' = "returned" ]_vars

\* C6: an error raised by the blocking pop puts the worker into the backoff
\* sleep with 5 time units to go; the sleep is left for the next blocking
\* pop only when the 5 units have passed, time passing one unit at a time,
\* and is left otherwise only by a requested cancellation: the error never
\* ends the loop.
C6_PopErrorBacksOff ==
    [][ /\ (pc = "brpop" /\ ~cancelRequested /\ ~redisUp /\ last' # last)
              => (pc' = "sleep" /\ sleepLeft' = 5)
        /\ (pc = "sleep" /\ pc' = "sleep")
              => sleepLeft' \in {sleepLeft, sleepLeft - 1}
        /\ (pc = "sleep" /\ pc' # "sleep")
              => \/ pc' = "brpop" /\ sleepLeft = 0
                 \/ cancelRequested ]_vars

\* C6 witness: after an error of the pop the backoff has run to its end and
\* the worker is at the blocking pop again.
C6_Witness ==
    /\ pc = "brpop"
    /\ last = "woke"
    /\ sleepLeft = 0

\* C7 as stated: an error raised by publish puts the worker into the
\* backoff sleep of 5 time units before the next blocking pop, as an error
\* of the pop does.
C7_Original ==
    [][ (pc = "publish" /\ ~cancelRequested /\ ~redisUp /\ last' # last)
            => (pc' = "sleep" /\ sleepLeft' = 5) ]_vars

\* C8 as stated: when the captioner fails to load or the queue is
\* unreachable at startup, no worker task is created, nothing is ever
\* popped, processed or published, and no health check reports healthy.
C8_Original ==
    startup \in {"model failed", "queue failed"} =>
        /\ worker_task = "None"
        /\ pc = "none"
        /\ nPopped = 0 /\ nProcessed = 0 /\ nPublishCalls = 0
        /\ health # "healthy"

\* The requestId a Result of this payload is to carry
ExpectedRequestId(payload) ==
    IF "requestId" \in DOMAIN payload.value.items
    THEN payload.value.items["requestId"] ELSE "unknown"

\* C14: every Result delivered on the channel carries the requestId of
\* the most recently popped job ("unknown" if that job has none), in the
\* success and in the failure shape, and leaves the earlier messages as
\* they were.
C14_RequestIdEchoed ==
    [][ published' # published =>
          /\ Len(published') = Len(published) + 1
          /\ SubSeq(published', 1, Len(published)) = published
          /\ published'[Len(published')].requestId = ExpectedRequestId(popped)
          /\ published'[Len(published')].success \in BOOLEAN ]_vars

\* C14 witness: two Results are on the channel, one of each shape, for
\* two jobs with different requestIds.
C14_Witness ==
    /\ Len(published) = 2
    /\ published[1].success # published[2].success
    /\ published[1].requestId # published[2].requestId

\* C15: queue_worker ends only when its cancellation has been requested.
C15_StopsOnlyOnCancel ==
    [][ (pc \notin Ended /\ pc' \in Ended) => cancelRequested ]_vars

\* C15 witness: the worker has popped payloads, published a Result, seen a
\* publish fail, and then returned.
C15_Witness ==
    /\ pc = "returned"
    /\ nPopped >= 2
    /\ nPublishCalls > Len(published)
    /\ Len(published) >= 1

\* C16: once the cancellation of the worker is requested, the worker's
\* next step ends it, so it starts no new blocking pop; it does end; and
\* shutdown_event is complete only when the worker task has ended.
C16_ShutdownStopsWorker ==
    /\ [][ (cancelRequested /\ last' # last) => (pc' \in Ended /\ nPopped' = nPopped) ]_vars
    /\ [](appPc = "closed" /\ worker_task # "None" => pc \in Ended)
    /\ (cancelRequested ~> pc \in Ended)

\* C16 witness: shutdown has completed for a worker that had popped a
\* payload, and the worker has ended.
C16_Witness ==
    /\ appPc = "closed"
    /\ worker_task = "task"
    /\ pc \in Ended
    /\ nPopped >= 1

\* C17: a payload is popped only at the blocking pop, one at a time, with
\* no Result of an earlier job still waiting to be published; a Result is
\* waiting only while the worker is in publish.
C17_OneAtATime ==
    /\ [][ nPopped' # nPopped =>
             /\ pc = "brpop"
             /\ result = NoResult
             /\ nPopped' = nPopped + 1
             /\ Len(queue') = Len(queue) - 1 ]_vars
    /\ [](result # NoResult => pc = "publish")
    /\ [](nPublishCalls - Len(published) >= 0 /\ nPopped >= nPublishCalls)

\* C17 witness: a second job is waiting to be published after the Result
\* of the first was delivered.
C17_Witness ==
    /\ pc = "publish"
    /\ result # NoResult
    /\ nPopped >= 2
    /\ Len(published) >= 1

\* C18: a blocking pop that times out calls neither process_image nor
\* publish, starts no backoff, and leaves the worker at the next pop.
C18_TimeoutIterates ==
    [][ (pc = "brpop" /\ ~cancelRequested /\ redisUp /\ queue = <<>> /\ last' # last)
            => /\ last' = "timeout"
               /\ pc' = "brpop"
               /\ sleepLeft' = 0
               /\ nPopped' = nPopped
               /\ nProcessed' = nProcessed
               /\ nPublishCalls' = nPublishCalls
               /\ published' = published ]_vars

\* C18 witness: the pop has timed out after an earlier payload was popped.
C18_Witness ==
    /\ pc = "brpop"
    /\ last = "timeout"
    /\ nPopped >= 1

\* C20: a popped payload that parses but has no requestId (or is no JSON
\* object) is not passed to process_image, has nothing published, and
\* leaves the worker at the next pop without backoff; no Result on the
\* channel carries the requestId "unknown".
C20_NoRequestIdDropped ==
    /\ [][ (/\ pc = "brpop"
            /\ nPopped' = nPopped + 1
            /\ popped'.kind = "json"
            /\ "requestId" \notin DOMAIN popped'.value.items)
              => /\ nProcessed' = nProcessed
                 /\ nPublishCalls' = nPublishCalls
                 /\ published' = published
                 /\ pc' = "brpop"
                 /\ sleepLeft' = 0 ]_vars
    /\ [](\A i \in 1..Len(published) : published[i].requestId # "unknown")

\* C20 witness: a JSON object without requestId was popped and dropped.
C20_Witness ==
    /\ pc = "brpop"
    /\ last = "job_error"
    /\ popped.kind = "json"
    /\ popped.value.type = "dict"
    /\ "requestId" \notin DOMAIN popped.value.items
    /\ nProcessed = 0

-----------------------------------------------------------------------------
(* Properties of process_image                                             *)

\* Some step of process_image fails on this job with this captioner
SomeStepFails(jd, gen) ==
    \/ {"requestId", "fileName", "imageData"} \ DOMAIN jd.items # {}
    \/ jd.items["imageData"] # "iVBORw0KGgo="
    \/ gen.raised

WellFormedWithImage(jd) ==
    /\ DOMAIN jd.items = {"requestId", "fileName", "imageData"}
    /\ jd.items["imageData"] = "iVBORw0KGgo="

\* C13 as stated: for every well-formed job whose imageData decodes to a
\* valid image, process_image returns a Result with success true, the
\* job's requestId, between 1 and 6 tags, and a non-empty caption equal to
\* the captioner's raw output.
C13_Original ==
    (ppc = "return" /\ WellFormedWithImage(job_data)) =>
        /\ ~outcome.raised
        /\ outcome.value.success = TRUE
        /\ outcome.value.requestId = job_data.items["requestId"]
        /\ Len(outcome.value.data.tags) \in 1..6
        /\ outcome.value.data.caption # <<>>
        /\ outcome.value.data.caption = captioner.caption

\* C13 as amended: for every well-formed job whose imageData decodes to a
\* valid image, and for which the captioner returns a caption rather than
\* raising, process_image returns a Result with success true, the job's
\* requestId, between 1 and 6 tags, and a caption equal to the captioner's
\* raw output, which is non-empty when that output is.
C13_SuccessResult ==
    (ppc = "return" /\ WellFormedWithImage(job_data) /\ ~captioner.raised) =>
        /\ ~outcome.raised
        /\ outcome.value.success = TRUE
        /\ DOMAIN outcome.value = {"requestId", "success", "data", "worker"}
        /\ outcome.value.requestId = job_data.items["requestId"]
        /\ Len(outcome.value.data.tags) \in 1..6
        /\ outcome.value.data.caption = captioner.caption
        /\ (captioner.caption # <<>>) => (outcome.value.data.caption # <<>>)

\* C13 witness: a well-formed job with an image, captioned "Dark", has
\* returned a success Result with that caption and the two moods of dark.
C13_Witness ==
    /\ ppc = "return"
    /\ WellFormedWithImage(job_data)
    /\ captioner.caption = <<"D","a","r","k">>
    /\ ~outcome.raised
    /\ outcome.value.success = TRUE
    /\ outcome.value.data.caption = <<"D","a","r","k">>
    /\ Range(outcome.value.data.tags) = {"moody", "mysterious"}

-----------------------------------------------------------------------------
(* Properties of extract_mood_tags                                         *)

FirstTwo(i) ==
    {mood_mappings[i].associated_moods[1], mood_mappings[i].associated_moods[2]}

NoDuplicates(seq) ==
    \A i, j \in 1..Len(seq) : i # j => seq[i] # seq[j]

\* C9: for every caption, extract_mood_tags returns between 1 and 6 tags
\* inclusive, and no tag appears twice in the returned list.
C9_TagCountAndUnique ==
    tpc = "return" =>
        /\ 1 <= Len(tag_list)
        /\ Len(tag_list) <= 6
        /\ NoDuplicates(tag_list)

\* C9 witness: a call that collected more than 6 moods has returned, cut
\* to exactly 6 tags.
C9_Witness ==
    /\ tpc = "return"
    /\ Cardinality(tags) > 6
    /\ Len(tag_list) = 6

\* C10 as stated: every keyword occurring in the lower-cased caption has
\* at least one of its first two moods in the returned list, also when the
\* collected moods exceed 6 and the list is truncated.
C10_Original ==
    tpc = "return" =>
        \A i \in occurring : FirstTwo(i) \cap Range(tag_list) # {}

\* C10 as amended: every keyword occurring in the lower-cased caption has
\* at least one of its first two moods in the returned list whenever the
\* collected moods number at most 6, that is when nothing is cut off.
C10_MatchedKeywordRepresented ==
    (tpc = "return" /\ Cardinality(tags) <= 6) =>
        \A i \in occurring : FirstTwo(i) \cap Range(tag_list) # {}

\* C10 witness: the keyword `red` occurs only inside the longer word
\* `covered` of an upper-case-initial caption, nothing was cut off, and one
\* of its moods is returned.
C10_Witness ==
    /\ tpc = "return"
    /\ Occurs(<<"c","o","v","e","r","e","d">>, lower(caption))
    /\ Occurs(<<"s","u","n","n","y">>, lower(caption))
    /\ Cardinality(tags) <= 6
    /\ {"passionate", "bold"} \cap Range(tag_list) # {}

\* A word of `words` occurs in the lower-cased caption
AnyOccurs(words, text) ==
    LET low == lower(text) IN \E w \in words : Occurs(w, low)

Nice == <<"n","i","c","e">>
Good == <<"g","o","o","d">>
Lovely == <<"l","o","v","e","l","y">>
Beautiful == <<"b","e","a","u","t","i","f","u","l">>
Sitting == <<"s","i","t","t","i","n","g">>
Standing == <<"s","t","a","n","d","i","n","g">>
Lying == <<"l","y","i","n","g">>

\* C11: for a caption in which no lexicon keyword occurs, the returned
\* tags are exactly one fallback set, by priority: pleasant and positive
\* when a positive word occurs, otherwise calm and relaxed when a posture
\* word occurs, otherwise neutral and balanced; "A person sitting quietly"
\* gives exactly calm and relaxed.
C11_FallbackByPriority ==
    (tpc = "return" /\ occurring = {}) =>
        /\ Len(tag_list) = 2
        /\ Range(tag_list) =
             IF AnyOccurs({Beautiful, Nice, Good, Lovely}, caption)
                 THEN {"pleasant", "positive"}
             ELSE IF AnyOccurs({Sitting, Standing, Lying}, caption)
                 THEN {"calm", "relaxed"}
             ELSE {"neutral", "balanced"}
        /\ caption = PersonSitting => Range(tag_list) = {"calm", "relaxed"}

\* C11 witness: a keyword-free caption holding both a positive word and a
\* posture word has returned the positive set.
C11_Witness ==
    /\ tpc = "return"
    /\ occurring = {}
    /\ AnyOccurs({Nice, Lovely}, caption)
    /\ AnyOccurs({Sitting, Standing}, caption)
    /\ Range(tag_list) = {"pleasant", "positive"}

\* C12 as stated: for "A sunny beach with bright colors" every returned
\* tag is one of cheerful, warm, happy, vibrant, energetic, relaxing,
\* tropical, carefree; at most 6 tags, none twice.
C12_Original ==
    (tpc = "return" /\ caption = SunnyBeach) =>
        /\ Range(tag_list) \subseteq
             {"cheerful", "warm", "happy", "vibrant", "energetic",
              "relaxing", "tropical", "carefree"}
        /\ Len(tag_list) <= 6
        /\ NoDuplicates(tag_list)

\* C12 as amended: for "A sunny beach with bright colors" every returned
\* tag is one of bright, cheerful, warm, happy, vibrant, energetic,
\* relaxing, tropical, carefree; at most 6 tags, none twice.
C12_SunnyBeachTags ==
    (tpc = "return" /\ caption = SunnyBeach) =>
        /\ Range(tag_list) \subseteq
             {"bright", "cheerful", "warm", "happy", "vibrant", "energetic",
              "relaxing", "tropical", "carefree"}
        /\ Len(tag_list) <= 6
        /\ NoDuplicates(tag_list)

\* C12 witness: the call on "A sunny beach with bright colors" has
\* returned, with the three keywords matched and the mood bright, which
\* the keyword sunny brings, among the tags.
C12_Witness ==
    /\ tpc = "return"
    /\ caption = SunnyBeach
    /\ Cardinality(occurring) = 3
    /\ "bright" \in Range(tag_list)

\* C19: when at least one keyword occurs in the caption, every returned
\* tag is one of the first two moods of a keyword that occurs: the
\* fallback adds nothing beside the keywords' tags.
C19_FallbackExclusive ==
    (tpc = "return" /\ occurring # {}) =>
        Range(tag_list) \subseteq UNION {FirstTwo(i) : i \in occurring}

\* C19 witness: a caption with a keyword, a positive word and a posture
\* word has returned, and none of the fallback-only tags is returned.
C19_Witness ==
    /\ tpc = "return"
    /\ occurring # {}
    /\ AnyOccurs({Nice}, caption)
    /\ AnyOccurs({Sitting}, caption)
    /\ Range(tag_list) \cap {"pleasant", "positive", "relaxed", "neutral", "balanced"} = {}

=============================================================================
